---- MODULE Spec2Model ----
(***************************************************************************)
(* Prediction-market contract (contract/src/lib.rs): markets, offers,      *)
(* matched share pairs, settlement credits and withdrawal.                 *)
(*                                                                         *)
(* Every entry point runs to completion inside one host call.  A panic     *)
(* (env::panic_str, require!, unwrap on None) aborts the call and the host *)
(* commits none of its storage writes; a call that returns commits all of  *)
(* them.  Each handler below is an operator that walks the code in order   *)
(* on the contract value `self` and returns the error it panicked with     *)
(* ("" when it returned) together with the contract value at that point;   *)
(* the actions commit that value only when the handler returned.  A call   *)
(* that panicked therefore leaves every variable as it was.                *)
(***************************************************************************)
EXTENDS Integers, Sequences, FiniteSets, TLC

\* ------------------------------ bounds ------------------------------ \*

MaxMarkets == 2      \* create_market is offered while fewer markets exist
MaxOffers  == 2      \* create_offer is offered while next_offer_id is below
MaxAmount  == 2      \* attached deposits range over 0..MaxAmount

Accounts     == {"alice", "bob"}
Descriptions == {"Will it rain?"}
Deposits     == 0..MaxAmount
MarketIds    == 0..MaxMarkets        \* includes an id no market ever has
OfferIds     == 0..MaxOffers         \* includes an id no offer ever has

\* The u128 of amounts and balances, scaled: U128Modulus stands for 2^128.
\* Only the position of a value relative to the modulus matters below.
U128Modulus  == 2^20
\* Deposits at the top of the range: a quarter and a half of the modulus
\* (2^126 and 2^127 at full width).
HugeDeposits == {0, U128Modulus \div 4, U128Modulus \div 2}

\* ------------------------------ state ------------------------------- \*

VARIABLES
    next_offer_id,   \* Contract.next_offer_id
    markets,         \* Contract.markets : sequence of Market (index = id + 1)
    credit,          \* Contract.credit  : partial map AccountId -> u128
    offers,          \* Contract.offers  : partial map u32 -> Offer
    deposited,       \* history: sum of deposits attached to committed payable calls
    transferred,     \* history: per account, sum of Promise transfers requested
    credited,        \* history: per account, sum of credit_account amounts committed
    accepted,        \* history: offer ids on which an accept_offer has committed
    paid,            \* history: per market, per share pair, number of payouts made
    last             \* the last committed call: entry point, caller, arguments, effects

contract == <<next_offer_id, markets, credit, offers>>
history  == <<deposited, transferred, credited, accepted, paid>>
vars     == <<next_offer_id, markets, credit, offers,
              deposited, transferred, credited, accepted, paid, last>>

\* The Contract struct as one value.
Self == [next_offer_id |-> next_offer_id, markets |-> markets,
         credit |-> credit, offers |-> offers]

NoPromise == [receiver |-> "", amount |-> 0, entry_present |-> FALSE]

\* Outcome of a handler: err = "" when it returned, else the panic it hit.
Outcome(err, self, credits, promise) ==
    [err |-> err, self |-> self, credits |-> credits, promise |-> promise]

Ok(self)        == Outcome("", self, <<>>, NoPromise)
Panic(err, self) == Outcome(err, self, <<>>, NoPromise)

\* ------------------------- map / vector helpers --------------------- \*

\* LookupMap / UnorderedMap remove: the key is absent afterwards.
MapRemove(m, k) == [x \in (DOMAIN m) \ {k} |-> m[x]]

\* insert: the key is present afterwards with value v.
MapInsert(m, k, v) == [x \in (DOMAIN m) \cup {k} |-> IF x = k THEN v ELSE m[x]]

\* Vector::get(id): present iff id < len.
HasMarket(self, market_id) == market_id < Len(self.markets)

GetMarket(self, market_id) == self.markets[market_id + 1]

\* ------------------------------ handlers ---------------------------- \*

\* Contract::new
new == [next_offer_id |-> 0, markets |-> <<>>, credit |-> <<>>, offers |-> <<>>]

\* Variant of create_market: the new market starts with is_open = false.
create_market_closed(self, predecessor, description) ==
    LET id == Len(self.markets)
        m  == [id |-> id, description |-> description, owner |-> predecessor,
               is_open |-> FALSE, shares |-> <<>>]
    IN  Ok([self EXCEPT !.markets = Append(@, m)])

\* Contract::create_market
create_market(self, predecessor, description) ==
    LET id == Len(self.markets)
        m  == [id |-> id, description |-> description, owner |-> predecessor,
               is_open |-> TRUE, shares |-> <<>>]
    IN  Ok([self EXCEPT !.markets = Append(@, m)])

\* Variant of credit_account: the entry is overwritten (insert) instead of
\* incremented.
credit_account_overwrite(self, account_id, amount) ==
    [self EXCEPT !.credit = MapInsert(@, account_id, amount)]

\* u128 arithmetic with the plain operators `*` and `+=`: the result is
\* reduced modulo 2^128 when the build has overflow-checks off; with
\* overflow-checks on the operation panics when Overflows holds.
Overflows(x) == x >= U128Modulus
Wrap(x) == x % U128Modulus

\* Contract::credit_account : *entry(account).or_insert(0) += amount
credit_account(self, account_id, amount) ==
    LET old == IF account_id \in DOMAIN self.credit THEN self.credit[account_id] ELSE 0
    IN  [self EXCEPT !.credit = MapInsert(@, account_id, Wrap(old + amount))]

\* Variant of withdraw: the entry is read with get instead of remove, so it
\* stays in the ledger.
withdraw_get(self, predecessor) ==
    IF predecessor \notin DOMAIN self.credit
    THEN Panic("NothingToWithdraw", self)
    ELSE Outcome("", self, <<>>,
                 [receiver |-> predecessor, amount |-> self.credit[predecessor],
                  entry_present |-> TRUE])

\* Variant of withdraw: the entry is zeroed instead of removed.
withdraw_zeroed(self, predecessor) ==
    IF predecessor \notin DOMAIN self.credit
    THEN Panic("NothingToWithdraw", self)
    ELSE LET amount == self.credit[predecessor]
             zeroed == [self EXCEPT !.credit = MapInsert(@, predecessor, 0)]
         IN  Outcome("", zeroed, <<>>,
                     [receiver |-> predecessor, amount |-> amount,
                      entry_present |-> predecessor \in DOMAIN zeroed.credit])

\* Contract::withdraw
withdraw(self, predecessor) ==
    IF predecessor \notin DOMAIN self.credit
    THEN Panic("NothingToWithdraw", self)
    ELSE LET amount  == self.credit[predecessor]
             removed == [self EXCEPT !.credit = MapRemove(@, predecessor)]
         IN  Outcome("", removed, <<>>,
                     [receiver |-> predecessor, amount |-> amount,
                      entry_present |-> predecessor \in DOMAIN removed.credit])

\* market.shares.iter().map(|s| (winner, s.amount)).collect()
Credits(shares, is_long) ==
    [i \in 1..Len(shares) |->
        [creditor |-> IF is_long THEN shares[i].long ELSE shares[i].short,
         amount   |-> shares[i].amount]]

\* One turn of the credit loop overflows: in amount.0 * 2, or in the += of
\* credit_account on the creditor's present balance.
CreditOverflows(self, c) ==
    \/ Overflows(c.amount * 2)
    \/ Overflows((IF c.creditor \in DOMAIN self.credit THEN self.credit[c.creditor] ELSE 0)
                    + Wrap(c.amount * 2))

\* for (creditor, amount) in credits { self.credit_account(creditor, amount.0 * 2) }
\* overflow_checks is the build profile's overflow-checks setting.
RECURSIVE ApplyCredits(_, _, _)
ApplyCredits(self, credits, overflow_checks) ==
    IF credits = <<>> THEN Ok(self)
    ELSE IF overflow_checks /\ CreditOverflows(self, Head(credits))
    THEN Panic("ArithmeticOverflow", self)
    ELSE ApplyCredits(credit_account(self, Head(credits).creditor,
                                     Wrap(Head(credits).amount * 2)),
                      Tail(credits), overflow_checks)

\* The tail of close_market once its checks have passed: flip is_open,
\* collect the credits, pay them.
Settle(self, market_id, is_long, overflow_checks) ==
    LET closed  == [self EXCEPT !.markets[market_id + 1].is_open = FALSE]
        credits == Credits(GetMarket(self, market_id).shares, is_long)
        paying  == ApplyCredits(closed, credits, overflow_checks)
    IN  IF paying.err # "" THEN paying
        ELSE Outcome("", paying.self, credits, NoPromise)

\* Variant of close_market: the require!(market.is_open) is missing.
close_market_no_open_check(self, predecessor, market_id, is_long, overflow_checks) ==
    IF ~HasMarket(self, market_id) THEN Panic("NotFound", self)
    ELSE IF GetMarket(self, market_id).owner # predecessor THEN Panic("NotOwner", self)
    ELSE Settle(self, market_id, is_long, overflow_checks)

\* Variant of close_market: the require!(market.owner == predecessor) is
\* missing.
close_market_no_owner_check(self, predecessor, market_id, is_long, overflow_checks) ==
    IF ~HasMarket(self, market_id) THEN Panic("NotFound", self)
    ELSE IF ~GetMarket(self, market_id).is_open THEN Panic("AlreadyClosed", self)
    ELSE Settle(self, market_id, is_long, overflow_checks)

\* Contract::close_market
close_market(self, predecessor, market_id, is_long, overflow_checks) ==
    IF ~HasMarket(self, market_id) THEN Panic("NotFound", self)
    ELSE IF ~GetMarket(self, market_id).is_open THEN Panic("AlreadyClosed", self)
    ELSE IF GetMarket(self, market_id).owner # predecessor THEN Panic("NotOwner", self)
    ELSE Settle(self, market_id, is_long, overflow_checks)

\* Variant of create_offer: the require!(amount > 0) is missing.
create_offer_no_amount_check(self, predecessor, amount, market_id, is_long) ==
    LET id == self.next_offer_id
        o  == [id |-> id, is_long |-> is_long, account_id |-> predecessor,
               amount |-> amount, market_id |-> market_id]
    IN  Ok([self EXCEPT !.next_offer_id = @ + 1, !.offers = MapInsert(@, id, o)])

\* Variant of create_offer: next_offer_id is not incremented.
create_offer_no_increment(self, predecessor, amount, market_id, is_long) ==
    IF ~(amount > 0) THEN Panic("InvalidAmount", self)
    ELSE LET id == self.next_offer_id
             o  == [id |-> id, is_long |-> is_long, account_id |-> predecessor,
                    amount |-> amount, market_id |-> market_id]
         IN  Ok([self EXCEPT !.offers = MapInsert(@, id, o)])

\* Variant of create_offer: the target market must exist.
create_offer_checks_market(self, predecessor, amount, market_id, is_long) ==
    IF ~(amount > 0) THEN Panic("InvalidAmount", self)
    ELSE IF ~HasMarket(self, market_id) THEN Panic("MarketNotFound", self)
    ELSE LET id == self.next_offer_id
             o  == [id |-> id, is_long |-> is_long, account_id |-> predecessor,
                    amount |-> amount, market_id |-> market_id]
         IN  Ok([self EXCEPT !.next_offer_id = @ + 1, !.offers = MapInsert(@, id, o)])

\* Contract::create_offer
create_offer(self, predecessor, amount, market_id, is_long) ==
    IF ~(amount > 0) THEN Panic("InvalidAmount", self)
    ELSE LET id == self.next_offer_id
             o  == [id |-> id, is_long |-> is_long, account_id |-> predecessor,
                    amount |-> amount, market_id |-> market_id]
         IN  Ok([self EXCEPT !.next_offer_id = @ + 1,
                             !.offers = MapInsert(@, id, o)])

\* The share pair accept_offer builds: the offer's creator keeps the side of
\* the offer, the acceptor takes the other one.
Pair(o, predecessor) ==
    IF o.is_long
    THEN [long |-> o.account_id, short |-> predecessor, amount |-> o.amount]
    ELSE [long |-> predecessor, short |-> o.account_id, amount |-> o.amount]

\* Variant of Match: the amount comparison is missing.
Match_no_amount_check(taken, predecessor, amount, o) ==
    IF predecessor = o.account_id THEN Panic("SelfTrade", taken)
    ELSE IF ~HasMarket(taken, o.market_id) THEN Panic("MarketNotFound", taken)
    ELSE Ok([taken EXCEPT !.markets[o.market_id + 1].shares = Append(@, Pair(o, predecessor))])

\* Variant of Match: the self-trade check comes before the amount comparison.
Match_selftrade_first(taken, predecessor, amount, o) ==
    IF predecessor = o.account_id THEN Panic("SelfTrade", taken)
    ELSE IF o.amount # amount THEN Panic("AmountMismatch", taken)
    ELSE IF ~HasMarket(taken, o.market_id) THEN Panic("MarketNotFound", taken)
    ELSE Ok([taken EXCEPT !.markets[o.market_id + 1].shares = Append(@, Pair(o, predecessor))])

\* Variant of Match: the self-trade check is missing.
Match_no_selftrade(taken, predecessor, amount, o) ==
    IF o.amount # amount THEN Panic("AmountMismatch", taken)
    ELSE IF ~HasMarket(taken, o.market_id) THEN Panic("MarketNotFound", taken)
    ELSE Ok([taken EXCEPT !.markets[o.market_id + 1].shares = Append(@, Pair(o, predecessor))])

\* Variant of Match: the two sides of the share pair are swapped.
Match_swapped(taken, predecessor, amount, o) ==
    IF o.amount # amount THEN Panic("AmountMismatch", taken)
    ELSE IF predecessor = o.account_id THEN Panic("SelfTrade", taken)
    ELSE IF ~HasMarket(taken, o.market_id) THEN Panic("MarketNotFound", taken)
    ELSE Ok([taken EXCEPT !.markets[o.market_id + 1].shares =
                Append(@, [long |-> Pair(o, predecessor).short,
                           short |-> Pair(o, predecessor).long,
                           amount |-> o.amount])])

\* The tail of accept_offer once the offer o has been taken out of the book
\* (`taken` is the contract without it): the amount, self-trade and market
\* checks, then the push of the share pair.
Match(taken, predecessor, amount, o) ==
    IF o.amount # amount THEN Panic("AmountMismatch", taken)
    ELSE IF predecessor = o.account_id THEN Panic("SelfTrade", taken)
    ELSE IF ~HasMarket(taken, o.market_id) THEN Panic("MarketNotFound", taken)
    ELSE Ok([taken EXCEPT !.markets[o.market_id + 1].shares = Append(@, Pair(o, predecessor))])

\* Variant of accept_offer: the offer is read with get instead of remove, so
\* it stays in the book.
accept_offer_get(self, predecessor, amount, offer_id) ==
    IF ~(amount > 0) THEN Panic("InvalidAmount", self)
    ELSE IF offer_id \notin DOMAIN self.offers THEN Panic("NotFound", self)
    ELSE Match(self, predecessor, amount, self.offers[offer_id])

\* Contract::accept_offer
accept_offer(self, predecessor, amount, offer_id) ==
    IF ~(amount > 0) THEN Panic("InvalidAmount", self)
    ELSE IF offer_id \notin DOMAIN self.offers THEN Panic("NotFound", self)
    ELSE Match([self EXCEPT !.offers = MapRemove(@, offer_id)],
               predecessor, amount, self.offers[offer_id])

\* ------------------------------ actions ----------------------------- \*

\* Variant of Committed: the writes a handler made before it panicked are
\* stored as well.
Committed_partial(out) == out.self

\* Host commit rule: the contract value in storage after a call is the
\* handler's when it returned and the one before the call when it panicked.
Committed(out) == IF out.err = "" THEN out.self ELSE Self

Commit(out) ==
    LET s == Committed(out)
    IN  /\ next_offer_id' = s.next_offer_id
        /\ markets' = s.markets
        /\ credit' = s.credit
        /\ offers' = s.offers

Call(op, caller, amount, market_id, offer_id, is_long, out) ==
    [op |-> op, caller |-> caller, amount |-> amount, market_id |-> market_id,
     offer_id |-> offer_id, is_long |-> is_long,
     credits |-> out.credits, promise |-> out.promise]

\* The record of the call, kept when the call committed.
Log(out, call) == last' = IF out.err = "" THEN call ELSE last

Init ==
    /\ next_offer_id = new.next_offer_id
    /\ markets = new.markets
    /\ credit = new.credit
    /\ offers = new.offers
    /\ deposited = 0
    /\ transferred = [a \in Accounts |-> 0]
    /\ credited = [a \in Accounts |-> 0]
    /\ accepted = {}
    /\ paid = <<>>
    /\ last = Call("new", "", 0, -1, -1, FALSE, Ok(new))

CreateMarket ==
    \E caller \in Accounts, d \in Descriptions :
        /\ Len(markets) < MaxMarkets
        /\ LET out == create_market(Self, caller, d) IN
            /\ Commit(out)
            /\ paid' = Append(paid, <<>>)
            /\ Log(out, Call("create_market", caller, 0, Len(markets), -1, FALSE, out))
        /\ UNCHANGED <<deposited, transferred, credited, accepted>>

CreateOfferWith(deposits) ==
    \E caller \in Accounts, amount \in deposits, m \in MarketIds, side \in BOOLEAN :
        /\ next_offer_id < MaxOffers
        /\ LET out == create_offer(Self, caller, amount, m, side) IN
            /\ Commit(out)
            /\ deposited' = IF out.err = "" THEN deposited + amount ELSE deposited
            /\ Log(out, Call("create_offer", caller, amount, m, next_offer_id, side, out))
        /\ UNCHANGED <<transferred, credited, accepted, paid>>

CreateOffer == CreateOfferWith(Deposits)

AcceptOfferWith(deposits) ==
    \E caller \in Accounts, amount \in deposits, o \in OfferIds :
        LET out == accept_offer(Self, caller, amount, o) IN
            /\ Commit(out)
            /\ deposited' = IF out.err = "" THEN deposited + amount ELSE deposited
            /\ accepted' = IF out.err = "" THEN accepted \cup {o} ELSE accepted
            /\ paid' = IF out.err = ""
                       THEN [paid EXCEPT ![offers[o].market_id + 1] = Append(@, 0)]
                       ELSE paid
            /\ Log(out, Call("accept_offer", caller, amount,
                             IF o \in DOMAIN offers THEN offers[o].market_id ELSE -1,
                             o, FALSE, out))
            /\ UNCHANGED <<transferred, credited>>

AcceptOffer == AcceptOfferWith(Deposits)

RECURSIVE SumCredits(_, _)
SumCredits(credits, a) ==
    IF credits = <<>> THEN 0
    ELSE (IF Head(credits).creditor = a THEN Head(credits).amount * 2 ELSE 0)
         + SumCredits(Tail(credits), a)

CloseMarket ==
    \E caller \in Accounts, m \in MarketIds, side \in BOOLEAN, checks \in BOOLEAN :
        LET out == close_market(Self, caller, m, side, checks) IN
            /\ Commit(out)
            /\ credited' = IF out.err = ""
                           THEN [a \in Accounts |-> credited[a] + SumCredits(out.credits, a)]
                           ELSE credited
            /\ paid' = IF out.err = ""
                       THEN [paid EXCEPT ![m + 1] =
                               [i \in 1..Len(@) |->
                                   IF i <= Len(out.credits) THEN @[i] + 1 ELSE @[i]]]
                       ELSE paid
            /\ Log(out, Call("close_market", caller, 0, m, -1, side, out))
            /\ UNCHANGED <<deposited, transferred, accepted>>

Withdraw ==
    \E caller \in Accounts :
        LET out == withdraw(Self, caller) IN
            /\ Commit(out)
            /\ transferred' = IF out.err = ""
                              THEN [transferred EXCEPT ![caller] = @ + out.promise.amount]
                              ELSE transferred
            /\ Log(out, Call("withdraw", caller, 0, -1, -1, FALSE, out))
            /\ UNCHANGED <<deposited, credited, accepted, paid>>

Next == CreateMarket \/ CreateOffer \/ AcceptOffer \/ CloseMarket \/ Withdraw

Spec == Init /\ [][Next]_vars

\* The same contract with deposits at the top of the u128 range.
CreateOfferHuge == CreateOfferWith(HugeDeposits)

AcceptOfferHuge == AcceptOfferWith(HugeDeposits)

NextOverflow ==
    CreateMarket \/ CreateOfferHuge \/ AcceptOfferHuge \/ CloseMarket \/ Withdraw

SpecOverflow == Init /\ [][NextOverflow]_vars

\* ------------------------------ typing ------------------------------ \*

TypeOK ==
    /\ next_offer_id \in 0..MaxOffers
    /\ Len(markets) <= MaxMarkets
    /\ Len(paid) = Len(markets)
    /\ \A i \in 1..Len(markets) : Len(paid[i]) = Len(markets[i].shares)
    /\ DOMAIN credit \subseteq Accounts
    /\ DOMAIN offers \subseteq 0..(MaxOffers - 1)

\* --------------------------- shared notions ------------------------- \*

MarketIndexes == 1..Len(markets)

Bal(c, a) == IF a \in DOMAIN c THEN c[a] ELSE 0

RECURSIVE SumOver(_, _)
SumOver(f, S) ==
    IF S = {} THEN 0
    ELSE LET x == CHOOSE y \in S : TRUE IN f[x] + SumOver(f, S \ {x})

EscrowedOffers == SumOver([o \in DOMAIN offers |-> offers[o].amount], DOMAIN offers)

SharesTotal(shares) ==
    SumOver([i \in 1..Len(shares) |-> shares[i].amount], 1..Len(shares))

OpenCollateral ==
    SumOver([i \in MarketIndexes |->
                IF markets[i].is_open THEN 2 * SharesTotal(markets[i].shares) ELSE 0],
            MarketIndexes)

LedgerTotal == SumOver(credit, DOMAIN credit)

WithdrawnTotal == SumOver(transferred, Accounts)

\* Sum of the amounts of the share pairs that account a wins on the given side.
WinSum(shares, is_long, a) ==
    SumOver([i \in 1..Len(shares) |->
                IF (IF is_long THEN shares[i].long ELSE shares[i].short) = a
                THEN shares[i].amount ELSE 0],
            1..Len(shares))

IsPrefix(s, t) == Len(s) <= Len(t) /\ \A i \in 1..Len(s) : t[i] = s[i]

\* An offer in the book whose market exists and has been closed.
OfferOnClosedMarket(o) ==
    /\ o \in DOMAIN offers
    /\ HasMarket(Self, offers[o].market_id)
    /\ ~GetMarket(Self, offers[o].market_id).is_open

\* ------------------------------ claims ------------------------------ \*

\* C1: conservation of value. In every state, the escrowed offer amounts,
\* plus twice the amounts of the share pairs of open markets, plus the credit
\* ledger balances, plus everything already withdrawn, equal the deposits
\* attached to the committed create_offer and accept_offer calls.
C1_Conservation ==
    EscrowedOffers + OpenCollateral + LedgerTotal + WithdrawnTotal = deposited

\* C2: a market's share pairs only grow, and only while the market is open:
\* every step keeps the old list as a prefix of the new one, and leaves the
\* list of a closed market as it is.
C2_PositionsFrozenAfterClose ==
    [][\A i \in MarketIndexes :
          /\ IsPrefix(markets[i].shares, markets'[i].shares)
          /\ ~markets[i].is_open => markets'[i].shares = markets[i].shares]_vars

\* C3: accept_offer on an offer whose market is closed, with the offer's own
\* amount and by a caller other than its creator, fails with MarketClosed and
\* the offer is still in the book after the call.
C3_AcceptOnClosedMarketFails ==
    \A o \in OfferIds, caller \in Accounts :
        (OfferOnClosedMarket(o) /\ caller # offers[o].account_id) =>
            LET out == accept_offer(Self, caller, offers[o].amount, o) IN
                /\ out.err = "MarketClosed"
                /\ Committed(out) = Self

\* C5: the 2x payout is made exactly once per share pair: every share pair
\* of a closed market has been paid once, every share pair of an open market
\* has not been paid.
C5_PaidExactlyOnce ==
    \A i \in MarketIndexes : \A k \in 1..Len(markets[i].shares) :
        paid[i][k] = IF markets[i].is_open THEN 0 ELSE 1

\* C4: a committed close_market(market_id, is_long) raises each account's
\* ledger balance by exactly twice the sum of the amounts of that market's
\* share pairs the account wins, with one credit per share pair; an account
\* that wins none keeps its entry (present or absent) as it was.
C4_SettlementArithmetic ==
    [][last'.op = "close_market" =>
          LET shares == markets[last'.market_id + 1].shares IN
            /\ Len(last'.credits) = Len(shares)
            /\ \A a \in Accounts :
                 LET w == WinSum(shares, last'.is_long, a) IN
                   /\ Bal(credit', a) = Bal(credit, a) + 2 * w
                   /\ w = 0 => /\ (a \in DOMAIN credit') = (a \in DOMAIN credit)
                               /\ Bal(credit', a) = Bal(credit, a)]_vars

\* C4 witness: a market was just closed in which one account won two share
\* pairs, and that account's balance holds both payouts.
C4_Witness ==
    /\ last.op = "close_market"
    /\ Len(last.credits) = 2
    /\ last.credits[1].creditor = last.credits[2].creditor
    /\ last.credits[1].amount # last.credits[2].amount
    /\ Bal(credit, last.credits[1].creditor) =
           2 * last.credits[1].amount + 2 * last.credits[2].amount

\* C6: an offer id is consumed exactly once: an accept_offer commits only on
\* an id no accept_offer has committed on before, and on an id already
\* accepted every accept_offer with a positive amount, by any caller, fails
\* with NotFound and leaves the contract as it was.
C6_AcceptedOnceInv ==
    \A o \in accepted, caller \in Accounts, amount \in Deposits \ {0} :
        LET out == accept_offer(Self, caller, amount, o) IN
            /\ out.err = "NotFound"
            /\ Committed(out) = Self

C6_ExactlyOnceConsumption ==
    /\ []C6_AcceptedOnceInv
    /\ [][last'.op = "accept_offer" =>
             /\ last'.offer_id \notin accepted
             /\ last'.offer_id \in DOMAIN offers
             /\ last'.offer_id \notin DOMAIN offers']_vars

\* C6 witness: an offer has been accepted while another offer is still in
\* the book.
C6_Witness == accepted # {} /\ offers # <<>> /\ last.op = "accept_offer"

\* C7: market lifecycle is monotone: a market is created open, is_open
\* changes only from true to false and only in a committed close_market on
\* that market, and a closed market is closed in every later state.
C7_LifecycleMonotone ==
    [][/\ Len(markets') >= Len(markets)
       /\ \A i \in 1..Len(markets') :
            IF i > Len(markets)
            THEN markets'[i].is_open /\ last'.op = "create_market"
            ELSE /\ ~markets[i].is_open => ~markets'[i].is_open
                 /\ markets'[i].is_open # markets[i].is_open =>
                       /\ last'.op = "close_market"
                       /\ last'.market_id = i - 1]_vars

\* C7 witness: one market has been closed and another one created after it.
C7_Witness ==
    /\ Len(markets) = 2
    /\ ~markets[1].is_open
    /\ markets[2].is_open
    /\ last.op = "create_market"

\* C8: close_market on a closed market fails with AlreadyClosed, whoever
\* calls it and whichever side it names, and leaves the market's share pairs
\* and the credit ledger as they were.
C8_CloseTwiceFails ==
    \A m \in MarketIds, caller \in Accounts, side \in BOOLEAN, checks \in BOOLEAN :
        (HasMarket(Self, m) /\ ~GetMarket(Self, m).is_open) =>
            LET out == close_market(Self, caller, m, side, checks) IN
                /\ out.err = "AlreadyClosed"
                /\ Committed(out).markets = markets
                /\ Committed(out).credit = credit

\* C8 witness: a closed market with a settled share pair.
C8_Witness ==
    \E i \in MarketIndexes :
        /\ ~markets[i].is_open
        /\ Len(markets[i].shares) > 0
        /\ paid[i][1] = 1

\* C9: close_market on an open market by anyone but its owner fails with
\* NotOwner and leaves the contract as it was; a market is only ever closed
\* by a call from its owner.
C9_NonOwnerInv ==
    \A m \in MarketIds, caller \in Accounts, side \in BOOLEAN, checks \in BOOLEAN :
        (HasMarket(Self, m) /\ GetMarket(Self, m).is_open
            /\ caller # GetMarket(Self, m).owner) =>
            LET out == close_market(Self, caller, m, side, checks) IN
                /\ out.err = "NotOwner"
                /\ Committed(out) = Self

C9_OnlyOwnerCloses ==
    /\ []C9_NonOwnerInv
    /\ [][\A i \in MarketIndexes :
            (markets[i].is_open /\ ~markets'[i].is_open) =>
                /\ last'.op = "close_market"
                /\ last'.caller = markets[i].owner]_vars

\* C9 witness: a market has just been closed by its owner while another
\* market, holding a share pair, is still open.
C9_Witness ==
    /\ \E i \in MarketIndexes : markets[i].is_open /\ Len(markets[i].shares) > 0
    /\ \E i \in MarketIndexes : ~markets[i].is_open
    /\ last.op = "close_market"

\* C10: a committed withdraw by an account with balance b removes the
\* account's entry, requests a transfer of exactly b to that account once the
\* entry is gone, and leaves the other entries, the offers, the markets and
\* the offer counter as they were.
C10_WithdrawEffect ==
    [][last'.op = "withdraw" =>
          LET x == last'.caller IN
            /\ x \in DOMAIN credit
            /\ x \notin DOMAIN credit'
            /\ last'.promise = [receiver |-> x, amount |-> credit[x],
                                entry_present |-> FALSE]
            /\ transferred'[x] = transferred[x] + credit[x]
            /\ DOMAIN credit' = (DOMAIN credit) \ {x}
            /\ \A a \in DOMAIN credit' : credit'[a] = credit[a]
            /\ offers' = offers
            /\ markets' = markets
            /\ next_offer_id' = next_offer_id]_vars

\* C10 witness: an account has withdrawn a positive balance while another
\* account still has an entry and both markets hold a share pair.
C10_Witness ==
    /\ last.op = "withdraw"
    /\ last.promise.amount > 0
    /\ last.caller \notin DOMAIN credit
    /\ DOMAIN credit # {}
    /\ \A i \in MarketIndexes : Len(markets[i].shares) > 0

\* C11: no double spend on withdrawal. withdraw by an account without a
\* ledger entry fails with NothingToWithdraw, requests no transfer and leaves
\* the contract as it was; a committed withdraw leaves the caller without an
\* entry, and an entry appears only in a committed close_market; the total
\* transferred to an account never exceeds the total credited to it.
C11_NoEntryInv ==
    /\ \A a \in Accounts \ DOMAIN credit :
         LET out == withdraw(Self, a) IN
            /\ out.err = "NothingToWithdraw"
            /\ out.promise = NoPromise
            /\ Committed(out) = Self
    /\ \A a \in Accounts : transferred[a] <= credited[a]

C11_NoDoubleSpend ==
    /\ []C11_NoEntryInv
    /\ [][/\ last'.op = "withdraw" => last'.caller \notin DOMAIN credit'
          /\ \A a \in Accounts :
               (a \notin DOMAIN credit /\ a \in DOMAIN credit') =>
                   last'.op = "close_market"]_vars

\* C11 witness: an account that has withdrawn has been credited again by a
\* later close_market.
C11_Witness ==
    /\ last.op = "close_market"
    /\ \E a \in DOMAIN credit : transferred[a] > 0 /\ credit[a] > 0

\* C12: accept_offer on an offer in the book with a positive amount other
\* than the offer's fails with AmountMismatch for every caller, the offer's
\* creator included, and leaves the contract as it was, so that an accept
\* with the exact amount by another account still goes through.
C12_AmountMismatch ==
    \A o \in DOMAIN offers, caller \in Accounts, amount \in Deposits \ {0} :
        amount # offers[o].amount =>
            LET out == accept_offer(Self, caller, amount, o) IN
                /\ out.err = "AmountMismatch"
                /\ Committed(out) = Self
                /\ \A other \in Accounts \ {offers[o].account_id} :
                     HasMarket(Self, offers[o].market_id) =>
                        accept_offer(Committed(out), other, offers[o].amount, o).err = ""

\* C12 witness: two offers of different positive amounts are in the book, one
\* of them on an existing market.
C12_Witness ==
    \E o1 \in DOMAIN offers, o2 \in DOMAIN offers :
        /\ offers[o1].amount # offers[o2].amount
        /\ HasMarket(Self, offers[o1].market_id)

\* C13 as stated: accept_offer by the offer's creator fails with SelfTrade
\* for every positive attached amount, equal to the offer's amount or not,
\* and leaves the contract as it was.
C13_SelfTradeAnyAmount ==
    \A o \in DOMAIN offers, amount \in Deposits \ {0} :
        LET out == accept_offer(Self, offers[o].account_id, amount, o) IN
            /\ out.err = "SelfTrade"
            /\ Committed(out) = Self

\* C13 amended: accept_offer by the offer's creator always fails and leaves
\* the offer in the book and the markets unchanged: with SelfTrade when the
\* attached amount equals the offer's amount, with AmountMismatch when it is
\* another positive amount.
C13_SelfTradeExactAmount ==
    \A o \in DOMAIN offers, amount \in Deposits \ {0} :
        LET out == accept_offer(Self, offers[o].account_id, amount, o) IN
            /\ out.err = IF amount = offers[o].amount THEN "SelfTrade"
                                                      ELSE "AmountMismatch"
            /\ Committed(out).offers = offers
            /\ Committed(out).markets = markets

\* C13 witness: an offer is in the book whose market exists and is open, so
\* that only the self-trade check stands between its creator and a match.
C13_Witness ==
    \E o \in DOMAIN offers :
        /\ HasMarket(Self, offers[o].market_id)
        /\ GetMarket(Self, offers[o].market_id).is_open
        /\ GetMarket(Self, offers[o].market_id).owner # offers[o].account_id

\* C14: create_offer with an attached amount of 0 fails with InvalidAmount,
\* for every caller, market id and side, and leaves the Offer Book and
\* next_offer_id as they were.
C14_ZeroAmountRejected ==
    \A caller \in Accounts, m \in MarketIds, side \in BOOLEAN :
        LET out == create_offer(Self, caller, 0, m, side) IN
            /\ out.err = "InvalidAmount"
            /\ Committed(out).offers = offers
            /\ Committed(out).next_offer_id = next_offer_id

\* C14 witness: an offer is in the book and the counter leaves room for
\* another create_offer.
C14_Witness ==
    /\ offers # <<>>
    /\ next_offer_id > 0
    /\ next_offer_id < MaxOffers

SettlementOverflows(m, is_long) ==
    LET shares == GetMarket(Self, m).shares
        winner(k) == IF is_long THEN shares[k].long ELSE shares[k].short
    IN  \E k \in 1..Len(shares) :
            \/ 2 * shares[k].amount >= U128Modulus
            \/ Bal(credit, winner(k))
                 + 2 * WinSum(SubSeq(shares, 1, k), is_long, winner(k)) >= U128Modulus

\* C16: payout arithmetic rejects overflow. A close_market by the owner of
\* an open market whose settlement overflows fails with ArithmeticOverflow
\* and commits nothing, and no ledger balance holds a wrapped value: every
\* balance is what was credited minus what was transferred.
C16_OverflowRejected ==
    /\ \A m \in MarketIds, side \in BOOLEAN, checks \in BOOLEAN :
         (HasMarket(Self, m) /\ GetMarket(Self, m).is_open
             /\ SettlementOverflows(m, side)) =>
            LET out == close_market(Self, GetMarket(Self, m).owner, m, side, checks) IN
                /\ out.err = "ArithmeticOverflow"
                /\ Committed(out) = Self
    /\ \A a \in Accounts : Bal(credit, a) + transferred[a] = credited[a]

\* C17: offer ids are never reused. A committed create_offer stores exactly
\* one new offer, under a key that is its own id, equal to the counter before
\* the call and greater than the id of every offer created before, accepted
\* ones included; no other call moves the counter; every offer in the book is
\* stored under its own id, below the counter.
C17_IdsInv ==
    /\ \A o \in DOMAIN offers : offers[o].id = o /\ o < next_offer_id
    /\ \A o \in accepted : o < next_offer_id
    /\ \A caller \in Accounts, amount \in Deposits, o \in OfferIds :
         Committed(accept_offer(Self, caller, amount, o)).next_offer_id = next_offer_id
    /\ \A caller \in Accounts, m \in MarketIds, side \in BOOLEAN :
         Committed(create_offer(Self, caller, 0, m, side)).next_offer_id = next_offer_id

C17_OfferIdsNeverReused ==
    /\ []C17_IdsInv
    /\ [][IF last'.op = "create_offer"
          THEN /\ next_offer_id' = next_offer_id + 1
               /\ DOMAIN offers' = (DOMAIN offers) \cup {next_offer_id}
               /\ next_offer_id \notin DOMAIN offers
               /\ offers'[next_offer_id].id = next_offer_id
               /\ \A o \in (DOMAIN offers) \cup accepted : o < next_offer_id
          ELSE next_offer_id' = next_offer_id]_vars

\* C17 witness: an offer has been created after an earlier one was accepted
\* and removed from the book.
C17_Witness ==
    /\ last.op = "create_offer"
    /\ accepted # {}
    /\ \A o \in accepted : o < last.offer_id

\* C18: effect of a committed accept_offer(offer_id) by B on the offer
\* {market_id, is_long, account A, amount a}: the offer leaves the book, one
\* share pair of amount a is appended to the end of that market's list, with
\* long = A and short = B for a long offer and the other way round for a
\* short one; the other offers, the other markets, the market's other fields
\* and the credit ledger stay as they were.
C18_AcceptEffect ==
    [][last'.op = "accept_offer" =>
          LET id == last'.offer_id
              B  == last'.caller
              o  == offers[id]
              i  == o.market_id + 1
          IN  /\ id \in DOMAIN offers
              /\ DOMAIN offers' = (DOMAIN offers) \ {id}
              /\ \A k \in DOMAIN offers' : offers'[k] = offers[k]
              /\ Len(markets') = Len(markets)
              /\ markets'[i].shares =
                    Append(markets[i].shares,
                           [long   |-> IF o.is_long THEN o.account_id ELSE B,
                            short  |-> IF o.is_long THEN B ELSE o.account_id,
                            amount |-> o.amount])
              /\ markets'[i].is_open = markets[i].is_open
              /\ markets'[i].owner = markets[i].owner
              /\ markets'[i].id = markets[i].id
              /\ \A j \in MarketIndexes \ {i} : markets'[j] = markets[j]
              /\ credit' = credit
              /\ next_offer_id' = next_offer_id]_vars

\* C18 witness: a short offer has just been accepted (the acceptor is the
\* long side of the last share pair) while another offer and another market
\* exist.
C18_Witness ==
    /\ last.op = "accept_offer"
    /\ Len(markets) = 2
    /\ offers # <<>>
    /\ LET shares == markets[last.market_id + 1].shares IN
          /\ Len(shares) > 0
          /\ shares[Len(shares)].long = last.caller

\* C19: create_offer does not look at its target market: with a positive
\* amount it returns and stores the offer for every market id, that of a
\* closed market and one no market has included. Every accept_offer on an
\* offer whose market does not exist fails and leaves the offer in the book;
\* with the offer's amount and a caller other than its creator the failure
\* is MarketNotFound.
C19_NoMarketValidation ==
    /\ \A caller \in Accounts, amount \in Deposits \ {0}, m \in MarketIds, side \in BOOLEAN :
         LET out == create_offer(Self, caller, amount, m, side) IN
            /\ out.err = ""
            /\ DOMAIN Committed(out).offers = (DOMAIN offers) \cup {next_offer_id}
            /\ Committed(out).offers[next_offer_id].market_id = m
    /\ \A o \in DOMAIN offers :
         ~HasMarket(Self, offers[o].market_id) =>
            \A caller \in Accounts, amount \in Deposits :
                LET out == accept_offer(Self, caller, amount, o) IN
                    /\ out.err # ""
                    /\ Committed(out) = Self
                    /\ (amount = offers[o].amount /\ caller # offers[o].account_id)
                          => out.err = "MarketNotFound"

\* C19 witness: the book holds an offer on a market that does not exist and
\* an offer created on a market that was already closed.
C19_Witness ==
    /\ \E o \in DOMAIN offers : ~HasMarket(Self, offers[o].market_id)
    /\ last.op = "create_offer"
    /\ HasMarket(Self, last.market_id)
    /\ ~GetMarket(Self, last.market_id).is_open
    /\ last.offer_id \in DOMAIN offers

\* C20: every share pair of every market has two different accounts as its
\* long and short side and a positive amount, and every offer in the book has
\* a positive amount.
C20_PairsWellFormed ==
    /\ \A i \in MarketIndexes : \A k \in 1..Len(markets[i].shares) :
         /\ markets[i].shares[k].long # markets[i].shares[k].short
         /\ markets[i].shares[k].amount > 0
    /\ \A o \in DOMAIN offers : offers[o].amount > 0

\* C20 witness: a market holds a share pair while an offer is in the book.
C20_Witness ==
    /\ \E i \in MarketIndexes : Len(markets[i].shares) > 0
    /\ offers # <<>>

====
